---- MODULE Spec2Model ----
(***************************************************************************)
(* The TCPing chart state of the two Home components of                    *)
(* frontend/src/app/page.tsx: the polling component (incremental           *)
(* since-based polls merged into the held rows) and the filter component   *)
(* (one fetch per selection / refresh, rows rebuilt from the response).    *)
(* The backend that answers /api/tcping/{id} is not part of the sources;   *)
(* it is modelled from the specification as an append-only bucket store    *)
(* whose open (trailing) bucket may still change.                          *)
(* SpecScenario replays the resampling scenario of the specification;      *)
(* SpecServers is the server list of the two components: /api/servers      *)
(* refreshes, the cachedNezhaServers entry, the selection and the effects   *)
(* that depend on it.                                                      *)
(***************************************************************************)
EXTENDS FiniteSets, Integers, Sequences, TLC

(* ------------------------------ bounds --------------------------------- *)
MaxTime == 3
MaxReq == 2
MaxIngest == 2

(* ------------------------- program constants --------------------------- *)
IntervalMs == 300000

Servers == {1, 2}
NoServer == 0
Undef == 0
Null == 0
NamedMonitors == {"A", "B"}
NullName == "null"
MonitorKeys == NamedMonitors \cup {NullName}
KeyOrder == <<"A", "B", NullName>>
Times == 1..MaxTime

Range(s) == {s[i] : i \in 1..Len(s)}

(* ======================= client: pure functions ======================== *)

\* new Date(time).getTime(): the created_at string of bucket t is the
\* epoch-anchored instant t * 5 minutes, in milliseconds
GetTime(time) == time * IntervalMs

EmptyVals == [k \in MonitorKeys |-> Undef]

IndexOfKey(acc, k) ==
  IF \E i \in 1..Len(acc) : acc[i].key = k
  THEN CHOOSE i \in 1..Len(acc) : acc[i].key = k
  ELSE 0

\* mutant: every point starts an object of its own
AddPointNoMerge(acc, point) ==
  Append(acc, [key |-> point.created_at,
               created_at |-> GetTime(point.created_at),
               vals |-> [EmptyVals EXCEPT ![point.monitor_name] = point.avg_delay]])

\* one iteration of rawData.forEach(point => ...): transformed[time][name] = delay
AddPoint(acc, point) ==
  LET i == IndexOfKey(acc, point.created_at)
  IN IF i = 0
     THEN Append(acc, [key |-> point.created_at,
                       created_at |-> GetTime(point.created_at),
                       vals |-> [EmptyVals EXCEPT ![point.monitor_name] = point.avg_delay]])
     ELSE [acc EXCEPT ![i].vals[point.monitor_name] = point.avg_delay]

RECURSIVE Transformed(_)
Transformed(rawData) ==
  IF rawData = <<>> THEN <<>>
  ELSE AddPoint(Transformed(SubSeq(rawData, 1, Len(rawData) - 1)), rawData[Len(rawData)])

\* Object.values(transformed): the rows in insertion order, without the key
NewChartData(rawData) ==
  LET tr == Transformed(rawData)
  IN [i \in 1..Len(tr) |-> [created_at |-> tr[i].created_at, vals |-> tr[i].vals]]

\* Set.add on a Set kept in insertion order
SetAdd(s, x) == IF x \in Range(s) THEN s ELSE Append(s, x)

RECURSIVE SetAddAll(_, _)
SetAddAll(s, xs) == IF xs = <<>> THEN s ELSE SetAddAll(SetAdd(s, Head(xs)), Tail(xs))

\* newMonitors: the monitor_name of every point, in first-appearance order
NewMonitors(rawData) ==
  SetAddAll(<<>>, [i \in 1..Len(rawData) |-> rawData[i].monitor_name])

\* .filter(name => name != null)
FilterNonNull(names) == SelectSeq(names, LAMBDA n : n # NullName)

\* mutant: the two lists concatenated without the Set
AllMonitorNamesPollingNoSet(held, rawData) == FilterNonNull(held \o NewMonitors(rawData))

\* polling component: Array.from(new Set([...monitorNamesRef.current, ...newMonitors])).filter(...)
AllMonitorNamesPolling(held, rawData) ==
  FilterNonNull(SetAddAll(SetAddAll(<<>>, held), NewMonitors(rawData)))

\* filter component: Array.from(newMonitors).filter(...)
AllMonitorNamesFilter(rawData) == FilterNonNull(NewMonitors(rawData))

\* mutant: an array push instead of a keyed set
MapSetNoDedup(dataMap, item) == Append(dataMap, item)

\* mutant: the entry already held wins over the new one
MapSetKeepOld(dataMap, item) ==
  IF \E i \in 1..Len(dataMap) : dataMap[i].created_at = item.created_at
  THEN dataMap
  ELSE Append(dataMap, item)

\* dataMap.set(item.created_at, item): a Map keeps one entry per key, in the
\* position of the key's first insertion
MapSet(dataMap, item) ==
  IF \E i \in 1..Len(dataMap) : dataMap[i].created_at = item.created_at
  THEN LET i == CHOOSE j \in 1..Len(dataMap) : dataMap[j].created_at = item.created_at
       IN [dataMap EXCEPT ![i] = item]
  ELSE Append(dataMap, item)

RECURSIVE MapSetAll(_, _)
MapSetAll(dataMap, items) ==
  IF items = <<>> THEN dataMap ELSE MapSetAll(MapSet(dataMap, Head(items)), Tail(items))

\* mutant: the comparator reversed, (a, b) => b.created_at - a.created_at
InsertSortedDescending(sorted, x) ==
  LET k == Cardinality({i \in 1..Len(sorted) : x.created_at - sorted[i].created_at <= 0})
  IN SubSeq(sorted, 1, k) \o <<x>> \o SubSeq(sorted, k + 1, Len(sorted))

\* one insertion of the stable sort by (a, b) => a.created_at - b.created_at
InsertSorted(sorted, x) ==
  LET k == Cardinality({i \in 1..Len(sorted) : sorted[i].created_at - x.created_at <= 0})
  IN SubSeq(sorted, 1, k) \o <<x>> \o SubSeq(sorted, k + 1, Len(sorted))

RECURSIVE SortByCreatedAt(_)
SortByCreatedAt(rows) ==
  IF rows = <<>> THEN <<>>
  ELSE InsertSorted(SortByCreatedAt(SubSeq(rows, 1, Len(rows) - 1)), rows[Len(rows)])

\* mutant: the rows already held are not put into the Map
CombinedDataNewOnly(currentData, newChartData) ==
  SortByCreatedAt(MapSetAll(<<>>, newChartData))

\* combinedData / freshData: merge through the Map, then sort
CombinedData(currentData, newChartData) ==
  SortByCreatedAt(MapSetAll(MapSetAll(<<>>, currentData), newChartData))

\* firstAvailableValues: per monitor, the value of the first row that has one
FirstAvailableValues(rows, names) ==
  [k \in MonitorKeys |->
     IF k \in Range(names) /\ \E i \in 1..Len(rows) : rows[i].vals[k] # Undef
     THEN LET i == CHOOSE j \in 1..Len(rows) :
                     /\ rows[j].vals[k] # Undef
                     /\ \A h \in 1..(j - 1) : rows[h].vals[k] = Undef
          IN rows[i].vals[k]
     ELSE Undef]

\* the fill loop over the sorted rows, carrying lastKnownValues
RECURSIVE FillRows(_, _, _)
FillRows(rows, names, lastKnownValues) ==
  IF rows = <<>> THEN <<>>
  ELSE LET dataPoint == Head(rows)
           filled == [k \in MonitorKeys |->
                        IF k \in Range(names) /\ dataPoint.vals[k] = Undef
                        THEN lastKnownValues[k] ELSE dataPoint.vals[k]]
           known == [k \in MonitorKeys |->
                       IF k \in Range(names) /\ dataPoint.vals[k] # Undef
                       THEN dataPoint.vals[k] ELSE lastKnownValues[k]]
       IN <<[dataPoint EXCEPT !.vals = filled]>> \o FillRows(Tail(rows), names, known)

\* the updater passed to setTcpingData in the polling component
MergeAndFill(currentData, rawData, allMonitorNames) ==
  LET combinedData == CombinedData(currentData, NewChartData(rawData))
  IN FillRows(combinedData, allMonitorNames,
              FirstAvailableValues(combinedData, allMonitorNames))

\* the updater passed to setTcpingData in the filter component
FreshAndFill(rawData, allMonitorNames) ==
  LET freshData == CombinedData(<<>>, NewChartData(rawData))
  IN FillRows(freshData, allMonitorNames,
              FirstAvailableValues(freshData, allMonitorNames))

\* rawData[rawData.length - 1]?.created_at, kept when there is none
LatestTimestamp(rawData, held) ==
  IF Len(rawData) > 0 THEN rawData[Len(rawData)].created_at ELSE held


(* ================= backend (modelled from the specification) =========== *)

\* server LiveServer is probed while the page is open; the probes of the other
\* server have stopped, so its series is one closed bucket of history
LiveServer == 1
IdleValue == 1

VARIABLES now, store, ingestCount

\* when the page opens the store is empty, or monitor "A" already has a sample
\* in the open bucket
EmptyStore == [t \in Times |-> EmptyVals]
EarlierSample == [EmptyStore EXCEPT ![1]["A"] = 1]

\* the points of bucket t, in monitor order
RECURSIVE BucketPoints(_, _, _)
BucketPoints(srv, t, keys) ==
  IF keys = <<>> THEN <<>>
  ELSE (IF store[t][Head(keys)] # Undef
        THEN <<[server_id |-> srv, monitor_name |-> Head(keys),
                avg_delay |-> store[t][Head(keys)], created_at |-> t]>>
        ELSE <<>>) \o BucketPoints(srv, t, Tail(keys))

RECURSIVE SeriesFrom(_, _)
SeriesFrom(srv, t) ==
  IF t > now THEN <<>> ELSE BucketPoints(srv, t, KeyOrder) \o SeriesFrom(srv, t + 1)

IdleSeries(srv, since) ==
  IF since <= 1
  THEN <<[server_id |-> srv, monitor_name |-> "B", avg_delay |-> IdleValue, created_at |-> 1]>>
  ELSE <<>>

\* getSeries(serverId, since): exactly the buckets with timestamp >= since,
\* ascending; without since the whole (bounded) window
GetSeries(srv, since) ==
  LET from == IF since = Null THEN 1 ELSE since
  IN IF srv = LiveServer THEN SeriesFrom(srv, from) ELSE IdleSeries(srv, from)

(* ============================ client state ============================= *)

VARIABLES version, selectedServer, tcpingData, monitorNames, lastTimestampRef,
          isLoadingTcping, inflight, reqCount

\* history of the current selection, used to state the claims
VARIABLES epoch, delivered, everDelivered, foreign, reordered, lastId, last

\* the raw samples of the probe executors, for the resampling scenario
VARIABLES samples

\* the server list: servers, the selectedServer object, selectedServerIdRef,
\* the localStorage entry cachedNezhaServers, the /api/servers requests in
\* flight and issued, whether the component has mounted
VARIABLES servers, selected, selectedServerIdRef, cache, listPending, listReqCount,
          mounted

\* history of the last step of the server list
VARIABLES step

backendVars == <<now, store, ingestCount>>
listVars == <<servers, selected, selectedServerIdRef, cache, listPending, listReqCount,
              mounted, step>>
otherVars == <<samples, listVars>>
clientVars == <<version, selectedServer, tcpingData, monitorNames, lastTimestampRef,
                isLoadingTcping>>
histVars == <<epoch, delivered, everDelivered, foreign, reordered, lastId, last>>
vars == <<now, store, ingestCount, version, selectedServer, tcpingData, monitorNames,
          lastTimestampRef, isLoadingTcping, inflight, reqCount, epoch, delivered,
          everDelivered, foreign, reordered, lastId, last, samples, listVars>>

\* selectedServerIdRef.current = null; selectedServer = null
NoId == -1
NoEntry == [id |-> NoId, load |-> 0]
NoCache == [present |-> FALSE, list |-> <<>>]
NoneDelivered == [t \in Times |-> [k \in MonitorKeys |-> Undef]]
NeverDelivered == [t \in Times |-> [k \in MonitorKeys |-> {}]]
NoLast == [kind |-> "none", server |-> NoServer, resp |-> <<>>, prevData |-> <<>>,
           prevTimestamp |-> Null]

NoStep == [kind |-> "none", list |-> <<>>, selected |-> NoEntry, epoch |-> 0,
           loaded |-> FALSE, serviceFetched |-> FALSE, anyOk |-> FALSE, clicked |-> FALSE]

\* the server list is not mounted
NoList ==
  /\ servers = <<>>
  /\ selected = NoEntry
  /\ selectedServerIdRef = NoId
  /\ cache = NoCache
  /\ listPending = 0
  /\ listReqCount = 0
  /\ mounted = FALSE
  /\ step = NoStep

Init ==
  /\ now = 1
  /\ store \in {EmptyStore, EarlierSample}
  /\ ingestCount = 0
  /\ version \in {"polling", "filter"}
  /\ selectedServer = NoServer
  /\ tcpingData = <<>>
  /\ monitorNames = <<>>
  /\ lastTimestampRef = Null
  /\ isLoadingTcping = TRUE
  /\ inflight = {}
  /\ reqCount = 0
  /\ epoch = 0
  /\ delivered = NoneDelivered
  /\ everDelivered = NeverDelivered
  /\ foreign = FALSE
  /\ reordered = FALSE
  /\ lastId = 0
  /\ last = NoLast
  /\ samples = {}
  /\ NoList

(* ---------------------------- backend steps ---------------------------- *)

\* a probe appends a sample to the open bucket of one monitor: the bucket's
\* aggregate moves on to its next value.  Nothing the backend does after the
\* last request of a run can be seen by the page.
BackendIngest(k) ==
  /\ ingestCount < MaxIngest
  /\ reqCount < MaxReq
  /\ store' = [store EXCEPT ![now][k] = store[now][k] + 1]
  /\ ingestCount' = ingestCount + 1
  /\ UNCHANGED <<now, clientVars, inflight, reqCount, histVars>>
  /\ UNCHANGED otherVars

\* the open bucket closes and the next one opens
BackendTick ==
  /\ now < MaxTime
  /\ reqCount < MaxReq
  /\ now' = now + 1
  /\ UNCHANGED <<store, ingestCount, clientVars, inflight, reqCount, histVars>>
  /\ UNCHANGED otherVars

\* the store stays as it is when a request has been answered from it; after
\* the last request of a run nothing can observe it any more, and it is put
\* back to its empty value
Observed ==
  IF reqCount + 1 = MaxReq
  THEN now' = 1 /\ store' = EmptyStore /\ ingestCount' = 0
  ELSE UNCHANGED backendVars

(* ----------------------------- client steps ---------------------------- *)

\* fetch(url): the request reaches the query service at once and is answered
\* from the store as it is then; the response travels for an arbitrary time
Request(srv, isInitial, since) ==
  [id |-> reqCount + 1, server |-> srv, isInitial |-> isInitial, since |-> since,
   epoch |-> epoch', resp |-> GetSeries(srv, since)]

\* polling component: the body of the TCPing effect: reset, initial fetch
\* (since = 24 hours ago: the whole modelled window), new interval
TcpingEffectPolling(srv) ==
  /\ isLoadingTcping' = TRUE
  /\ tcpingData' = <<>>
  /\ monitorNames' = <<>>
  /\ lastTimestampRef' = Null
  /\ epoch' = epoch + 1
  /\ inflight' = inflight \cup {Request(srv, TRUE, Null)}
  /\ reqCount' = reqCount + 1
  /\ delivered' = NoneDelivered
  /\ everDelivered' = NeverDelivered
  /\ foreign' = FALSE
  /\ reordered' = FALSE
  /\ lastId' = 0
  /\ last' = [NoLast EXCEPT !.kind = "select"]

\* polling component: the selected id changes, the TCPing effect runs again
SelectServerPolling(srv) ==
  /\ version = "polling"
  /\ srv # selectedServer
  /\ reqCount < MaxReq
  /\ selectedServer' = srv
  /\ TcpingEffectPolling(srv)
  /\ Observed
  /\ UNCHANGED version
  /\ UNCHANGED otherVars

\* polling component: the 5 second timer fires
PollTick ==
  /\ version = "polling"
  /\ selectedServer # NoServer
  /\ reqCount < MaxReq
  /\ epoch' = epoch
  /\ inflight' = inflight \cup {Request(selectedServer, FALSE, lastTimestampRef)}
  /\ reqCount' = reqCount + 1
  /\ Observed
  /\ UNCHANGED <<clientVars, delivered, everDelivered, foreign, reordered,
                 lastId, last>>
  /\ UNCHANGED otherVars

\* the points of a response recorded in the history of the current selection
Record(hist, rawData) ==
  [t \in Times |-> [k \in MonitorKeys |->
     IF \E i \in 1..Len(rawData) : rawData[i].created_at = t /\ rawData[i].monitor_name = k
     THEN LET i == CHOOSE j \in 1..Len(rawData) :
                     /\ rawData[j].created_at = t /\ rawData[j].monitor_name = k
                     /\ \A h \in (j + 1)..Len(rawData) :
                          ~(rawData[h].created_at = t /\ rawData[h].monitor_name = k)
          IN rawData[i].avg_delay
     ELSE hist[t][k]]]

RecordEver(hist, rawData) ==
  [t \in Times |-> [k \in MonitorKeys |->
     hist[t][k] \cup {rawData[i].avg_delay : i \in
        {j \in 1..Len(rawData) : rawData[j].created_at = t /\ rawData[j].monitor_name = k}}]]

History(req, kind) ==
  /\ epoch' = epoch
  /\ delivered' = IF req.epoch = epoch THEN Record(delivered, req.resp) ELSE delivered
  /\ everDelivered' = IF req.epoch = epoch THEN RecordEver(everDelivered, req.resp)
                      ELSE everDelivered
  /\ foreign' = (foreign \/ req.epoch # epoch)
  /\ reordered' = (reordered \/ req.id < lastId)
  /\ lastId' = IF req.id > lastId THEN req.id ELSE lastId
  /\ last' = [kind |-> kind, server |-> req.server, resp |-> req.resp,
              prevData |-> tcpingData, prevTimestamp |-> lastTimestampRef]

\* polling component: a response arrives and fetchAndProcessTcpingData continues
ReceivePolling(req) ==
  /\ version = "polling"
  /\ req \in inflight
  /\ inflight' = inflight \ {req}
  /\ IF Len(req.resp) = 0 /\ ~req.isInitial
     THEN UNCHANGED <<clientVars, histVars>>
     ELSE LET allMonitorNames == AllMonitorNamesPolling(monitorNames, req.resp)
          IN /\ monitorNames' = allMonitorNames
             /\ tcpingData' = MergeAndFill(tcpingData, req.resp, allMonitorNames)
             /\ lastTimestampRef' = LatestTimestamp(req.resp, lastTimestampRef)
             /\ isLoadingTcping' = IF req.isInitial THEN FALSE ELSE isLoadingTcping
             /\ History(req, "receive")
             /\ UNCHANGED <<version, selectedServer>>
  /\ UNCHANGED <<backendVars, reqCount>>
  /\ UNCHANGED otherVars

\* polling component: fetch or json() rejects: catch, then finally
FetchFailPolling(req) ==
  /\ version = "polling"
  /\ req \in inflight
  /\ inflight' = inflight \ {req}
  /\ isLoadingTcping' = IF req.isInitial THEN FALSE ELSE isLoadingTcping
  /\ UNCHANGED <<backendVars, version, selectedServer, tcpingData, monitorNames,
                 lastTimestampRef, reqCount, histVars>>
  /\ UNCHANGED otherVars

\* filter component: the body of the TCPing effect: monitorNames is reset,
\* tcpingData is not; one fetch, no interval
TcpingEffectFilter(srv, kind) ==
  /\ isLoadingTcping' = TRUE
  /\ monitorNames' = <<>>
  /\ epoch' = epoch + 1
  /\ inflight' = inflight \cup {Request(srv, TRUE, Null)}
  /\ reqCount' = reqCount + 1
  /\ delivered' = NoneDelivered
  /\ everDelivered' = NeverDelivered
  /\ foreign' = FALSE
  /\ reordered' = FALSE
  /\ lastId' = 0
  /\ last' = [NoLast EXCEPT !.kind = kind]
  /\ UNCHANGED <<tcpingData, lastTimestampRef>>

\* filter component: the selected id changes, the effect runs again
SelectServerFilter(srv) ==
  /\ version = "filter"
  /\ srv # selectedServer
  /\ reqCount < MaxReq
  /\ selectedServer' = srv
  /\ TcpingEffectFilter(srv, "select")
  /\ Observed
  /\ UNCHANGED version
  /\ UNCHANGED otherVars

\* filter component: refreshKey changes, the effect runs again for the same id
RefreshFilter ==
  /\ version = "filter"
  /\ selectedServer # NoServer
  /\ reqCount < MaxReq
  /\ TcpingEffectFilter(selectedServer, "refresh")
  /\ Observed
  /\ UNCHANGED <<version, selectedServer>>
  /\ UNCHANGED otherVars

\* filter component: a response arrives and fetchAndProcessTcpingData continues
ReceiveFilter(req) ==
  /\ version = "filter"
  /\ req \in inflight
  /\ inflight' = inflight \ {req}
  /\ LET allMonitorNames == AllMonitorNamesFilter(req.resp)
     IN /\ monitorNames' = allMonitorNames
        /\ tcpingData' = FreshAndFill(req.resp, allMonitorNames)
  /\ isLoadingTcping' = FALSE
  /\ History(req, "receive")
  /\ UNCHANGED <<backendVars, version, selectedServer, lastTimestampRef, reqCount>>
  /\ UNCHANGED otherVars

\* filter component: fetch or json() rejects: catch, then finally
FetchFailFilter(req) ==
  /\ version = "filter"
  /\ req \in inflight
  /\ inflight' = inflight \ {req}
  /\ isLoadingTcping' = FALSE
  /\ UNCHANGED <<backendVars, version, selectedServer, tcpingData, monitorNames,
                 lastTimestampRef, reqCount, histVars>>
  /\ UNCHANGED otherVars

Next ==
  \/ \E k \in MonitorKeys : BackendIngest(k)
  \/ BackendTick
  \/ \E srv \in Servers : SelectServerPolling(srv)
  \/ PollTick
  \/ \E req \in inflight : ReceivePolling(req)
  \/ \E req \in inflight : FetchFailPolling(req)
  \/ \E srv \in Servers : SelectServerFilter(srv)
  \/ RefreshFilter
  \/ \E req \in inflight : ReceiveFilter(req)
  \/ \E req \in inflight : FetchFailFilter(req)

Spec == Init /\ [][Next]_vars


(* ============================= properties ============================== *)

Rows == 1..Len(tcpingData)
NameSet == Range(monitorNames)

\* the bucket a row stands for
BucketOf(row) == row.created_at \div IntervalMs

RowAt(rows, createdAt) == CHOOSE i \in 1..Len(rows) : rows[i].created_at = createdAt
HasRowAt(rows, createdAt) == \E i \in 1..Len(rows) : rows[i].created_at = createdAt

\* buckets in which a sample of monitor k was delivered to the current selection
DeliveredAt(k) == {t \in Times : everDelivered[t][k] # {}}
Earliest(ts) == CHOOSE t \in ts : \A u \in ts : t <= u
Latest(ts) == CHOOSE t \in ts : \A u \in ts : u <= t

\* the points delivered to the current selection, later deliveries replacing
\* earlier ones, as one ascending series
RECURSIVE DeliveredPoints(_, _)
DeliveredPoints(t, keys) ==
  IF keys = <<>> THEN <<>>
  ELSE (IF delivered[t][Head(keys)] # Undef
        THEN <<[server_id |-> selectedServer, monitor_name |-> Head(keys),
                avg_delay |-> delivered[t][Head(keys)], created_at |-> t]>>
        ELSE <<>>) \o DeliveredPoints(t, Tail(keys))

RECURSIVE DeliveredSeries(_)
DeliveredSeries(t) ==
  IF t > MaxTime THEN <<>> ELSE DeliveredPoints(t, KeyOrder) \o DeliveredSeries(t + 1)

\* every response applied since the last reset answered a request of the
\* current selection
OneSelection == ~foreign
\* ... and the responses were applied in the order the requests were issued
InOrder == ~foreign /\ ~reordered

\* C1: forward-fill.  For one selected server, every monitor of monitorNames
\* and every row at or after the earliest bucket in which a sample of the
\* monitor was delivered: the row's value is a sample delivered for that
\* (bucket, monitor), or a sample delivered for the nearest preceding bucket
\* in which the monitor was delivered.
C1_ForwardFill ==
  OneSelection =>
    \A k \in NameSet : \A i \in Rows :
      LET t == BucketOf(tcpingData[i])
          before == {u \in DeliveredAt(k) : u < t}
      IN (DeliveredAt(k) # {} /\ Earliest(DeliveredAt(k)) <= t) =>
           tcpingData[i].vals[k] \in
             everDelivered[t][k] \cup
               (IF before = {} THEN {} ELSE everDelivered[Latest(before)][k])

\* C2: back-fill.  For every monitor of monitorNames with a delivered sample,
\* every row before the bucket of the monitor's first delivered sample carries
\* the value delivered for that first sample.  Stated for responses applied in
\* the order of their requests, the case most favourable to the claim.
C2_BackFill ==
  (InOrder /\ last.kind = "receive") =>
    \A k \in NameSet : \A i \in Rows :
      LET first == {t \in Times : delivered[t][k] # Undef}
      IN (first # {} /\ BucketOf(tcpingData[i]) < Earliest(first)) =>
           tcpingData[i].vals[k] = delivered[Earliest(first)][k]

\* C3: in both components the rows of tcpingData are strictly increasing by
\* created_at (hence pairwise distinct).
C3_StrictlyIncreasing ==
  \A i \in Rows : \A j \in Rows :
    i < j => tcpingData[i].created_at < tcpingData[j].created_at

C3_Witness ==
  /\ version = "polling"
  /\ last.kind = "receive"
  /\ Len(tcpingData) >= 2
  /\ \E p \in Range(last.resp) : HasRowAt(last.prevData, GetTime(p.created_at))
  /\ \E p \in Range(last.resp) : ~HasRowAt(last.prevData, GetTime(p.created_at))

\* the points of the last response that fall on a row that was already held
Overlap == {p \in Range(last.resp) : HasRowAt(last.prevData, GetTime(p.created_at))}

\* C4: de-duplication by timestamp.  After a poll response with points on a
\* timestamp already held, tcpingData holds exactly one row for the timestamp
\* and the row holds every value the response delivered for it.
C4_DedupByTimestamp ==
  (version = "polling" /\ last.kind = "receive") =>
    \A p \in Overlap :
      /\ Cardinality({i \in Rows : tcpingData[i].created_at = GetTime(p.created_at)}) = 1
      /\ \A i \in Rows :
           tcpingData[i].created_at = GetTime(p.created_at) =>
             tcpingData[i].vals[p.monitor_name] = p.avg_delay

C4_Witness ==
  /\ version = "polling"
  /\ last.kind = "receive"
  /\ \E p \in Overlap :
       LET old == last.prevData[RowAt(last.prevData, GetTime(p.created_at))]
       IN /\ old.vals[p.monitor_name] # Undef
          /\ old.vals[p.monitor_name] # p.avg_delay
          /\ tcpingData[RowAt(tcpingData, GetTime(p.created_at))].vals[p.monitor_name]
               = p.avg_delay

\* C5: no fabrication.  A monitor is in monitorNames, or has a value in a row
\* of tcpingData, only if a sample of it was delivered in a response to a
\* request issued for the current selection.
C5_NoFabrication ==
  /\ \A k \in NameSet : DeliveredAt(k) # {}
  /\ \A i \in Rows : \A k \in MonitorKeys :
       tcpingData[i].vals[k] # Undef => DeliveredAt(k) # {}

\* C6: incremental consistency.  In the polling component the rows held after
\* the initial fetch and the polls that followed equal the rows one pass of
\* merge, sort and fill makes of the union of the delivered points.
C6_IncrementalConsistency ==
  (version = "polling" /\ InOrder /\ last.kind = "receive") =>
    tcpingData = FreshAndFill(DeliveredSeries(1), AllMonitorNamesFilter(DeliveredSeries(1)))

\* C7: idempotence.  Processing the response just processed once more leaves
\* tcpingData and monitorNames as they are; in the filter component the rows
\* are those the response alone gives, whatever was held before.
C7_Idempotent ==
  last.kind = "receive" =>
    /\ version = "polling" =>
         LET again == AllMonitorNamesPolling(monitorNames, last.resp)
         IN /\ again = monitorNames
            /\ MergeAndFill(tcpingData, last.resp, again) = tcpingData
    /\ version = "filter" =>
         /\ monitorNames = AllMonitorNamesPolling(<<>>, last.resp)
         /\ tcpingData = MergeAndFill(<<>>, last.resp, monitorNames)

C7_Witness ==
  /\ version = "polling"
  /\ last.kind = "receive"
  /\ Overlap # {}
  /\ Len(tcpingData) >= 2
  /\ \E i \in Rows : \E k \in NameSet :
       /\ tcpingData[i].vals[k] # Undef
       /\ everDelivered[BucketOf(tcpingData[i])][k] = {}

\* C8: across repeated polls, the value (or absence of a value) of a monitor
\* in a row already held does not change, except in the trailing row.
C8_EmittedRowsFrozen ==
  (version = "polling" /\ InOrder /\ last.kind = "receive") =>
    \A i \in 1..(Len(last.prevData) - 1) :
      /\ HasRowAt(tcpingData, last.prevData[i].created_at)
      /\ tcpingData[RowAt(tcpingData, last.prevData[i].created_at)].vals
           = last.prevData[i].vals

\* C8 as amended: a row that the processed response does not deliver again
\* stays, and every value it holds stays; only its unset cells may be filled.
C8_SetValuesFrozen ==
  (version = "polling" /\ last.kind = "receive") =>
    \A i \in 1..Len(last.prevData) :
      (\A p \in Range(last.resp) : GetTime(p.created_at) # last.prevData[i].created_at) =>
        /\ HasRowAt(tcpingData, last.prevData[i].created_at)
        /\ \A k \in MonitorKeys :
             last.prevData[i].vals[k] # Undef =>
               tcpingData[RowAt(tcpingData, last.prevData[i].created_at)].vals[k]
                 = last.prevData[i].vals[k]

C8_Witness ==
  /\ version = "polling"
  /\ last.kind = "receive"
  /\ InOrder
  /\ \E i \in 1..(Len(last.prevData) - 1) : \E k \in MonitorKeys : \E h \in MonitorKeys :
       LET old == last.prevData[i]
           new == tcpingData[RowAt(tcpingData, old.created_at)]
       IN /\ \A p \in Range(last.resp) : GetTime(p.created_at) # old.created_at
          /\ old.vals[k] = Undef /\ new.vals[k] # Undef
          /\ old.vals[h] # Undef /\ new.vals[h] = old.vals[h]

\* C9: after every completed fetch each row has a value for at least one
\* monitor of monitorNames.
C9_NoEmptyRow ==
  last.kind = "receive" =>
    \A i \in Rows : \E k \in NameSet : tcpingData[i].vals[k] # Undef

IntervalSec == IntervalMs \div 1000

\* the samples of the scenario, in seconds; bucket 1 starts at 10:00:00
ScenarioSamples ==
  {[monitor |-> "A", at |-> IntervalSec + 1, delay |-> 20],
   [monitor |-> "A", at |-> IntervalSec + 290, delay |-> 30],
   [monitor |-> "B", at |-> IntervalSec + 120, delay |-> 15]}

\* further samples the probes may have written in the window [10:00, 10:10)
SampleUniverse ==
  ScenarioSamples \cup
  {[monitor |-> "B", at |-> IntervalSec + 240, delay |-> 25],
   [monitor |-> "A", at |-> 2 * IntervalSec + 60, delay |-> 40],
   [monitor |-> "B", at |-> 2 * IntervalSec + 120, delay |-> 10]}

\* the samples of monitor k whose timestamp lies in [bucket_start, bucket_start + interval)
InBucket(smp, t, k) ==
  {s \in smp : s.monitor = k /\ s.at \div IntervalSec = t}

RECURSIVE SumDelay(_)
SumDelay(smp) ==
  IF smp = {} THEN 0
  ELSE LET s == CHOOSE x \in smp : TRUE IN s.delay + SumDelay(smp \ {s})

\* arithmetic mean of the delays of a non-empty bucket
Mean(smp) == SumDelay(smp) \div Cardinality(smp)

\* the buckets of slot t, one per monitor with a sample in it; a slot with
\* no sample gets no bucket
RECURSIVE ResampledBucket(_, _, _, _)
ResampledBucket(srv, smp, t, keys) ==
  IF keys = <<>> THEN <<>>
  ELSE (IF InBucket(smp, t, Head(keys)) # {}
        THEN <<[server_id |-> srv, monitor_name |-> Head(keys),
                avg_delay |-> Mean(InBucket(smp, t, Head(keys))), created_at |-> t]>>
        ELSE <<>>) \o ResampledBucket(srv, smp, t, Tail(keys))

RECURSIVE Resampled(_, _, _)
Resampled(srv, smp, t) ==
  IF t > MaxTime THEN <<>>
  ELSE ResampledBucket(srv, smp, t, KeyOrder) \o Resampled(srv, smp, t + 1)

InitScenario ==
  /\ now = 1
  /\ store = EmptyStore
  /\ ingestCount = 0
  /\ version = "filter"
  /\ selectedServer = NoServer
  /\ tcpingData = <<>>
  /\ monitorNames = <<>>
  /\ lastTimestampRef = Null
  /\ isLoadingTcping = TRUE
  /\ inflight = {}
  /\ reqCount = 0
  /\ epoch = 0
  /\ delivered = NoneDelivered
  /\ everDelivered = NeverDelivered
  /\ foreign = FALSE
  /\ reordered = FALSE
  /\ lastId = 0
  /\ last = NoLast
  /\ samples \in SUBSET SampleUniverse
  /\ NoList

\* filter component: the first server is selected, the effect runs and its
\* fetch is answered with the resampled series of the window
ScenarioSelect ==
  /\ version = "filter"
  /\ selectedServer = NoServer
  /\ selectedServer' = LiveServer
  /\ isLoadingTcping' = TRUE
  /\ monitorNames' = <<>>
  /\ epoch' = epoch + 1
  /\ inflight' = {[Request(LiveServer, TRUE, Null) EXCEPT
                     !.resp = Resampled(LiveServer, samples, 1)]}
  /\ reqCount' = reqCount + 1
  /\ last' = [NoLast EXCEPT !.kind = "select"]
  /\ UNCHANGED <<backendVars, version, tcpingData, lastTimestampRef, delivered,
                 everDelivered, foreign, reordered, lastId, otherVars>>

NextScenario ==
  \/ ScenarioSelect
  \/ \E req \in inflight : ReceiveFilter(req)
  \/ \E req \in inflight : FetchFailFilter(req)

SpecScenario == InitScenario /\ [][NextScenario]_vars

\* the row of bucket t with the given values of A and B
ScenarioRow(t, a, b) ==
  [created_at |-> GetTime(t), vals |-> [EmptyVals EXCEPT !["A"] = a, !["B"] = b]]

\* C11: with samples A@10:00:01=20, A@10:04:50=30 and B@10:02:00=15, interval
\* 5m and window [10:00, 10:10), the rows are a row at 10:00 {A:25, B:15} and a
\* row at 10:05 {A:25, B:15}.
C11_Scenario ==
  (samples = ScenarioSamples /\ last.kind = "receive") =>
    tcpingData = <<ScenarioRow(1, 25, 15), ScenarioRow(2, 25, 15)>>

\* C11 as amended: the rows are exactly one row at 10:00 {A:25, B:15}; the
\* slot 10:05 holds no sample of any monitor and gets no row.
C11_SingleRow ==
  (samples = ScenarioSamples /\ last.kind = "receive") =>
    /\ tcpingData = <<ScenarioRow(1, 25, 15)>>
    /\ monitorNames = <<"A", "B">>

C11_Witness ==
  /\ samples = ScenarioSamples
  /\ last.kind = "receive"
  /\ Len(tcpingData) = 1
  /\ tcpingData[1].vals["A"] = 25


(* ===================== selection, loading, poll cursor ================== *)

\* C12: server-switch isolation.  When the selected id changes, tcpingData and
\* monitorNames are reset, and no response to a request issued for another
\* server than the selected one puts its points into the state.
C12_SwitchIsolation ==
  /\ last.kind = "select" => (tcpingData = <<>> /\ monitorNames = <<>>)
  /\ (last.kind = "receive" /\ last.server # selectedServer) => last.resp = <<>>

\* C14: isLoadingTcping is true from a change of the selection (or a refresh)
\* until the first fetch issued for that selection completes: while the
\* initial fetch of the current effect run is in flight, it is true.
C14_LoadingUntilFirstFetch ==
  (\E req \in inflight : req.epoch = epoch /\ req.isInitial) => isLoadingTcping = TRUE

\* C15: while one server stays selected in the polling component, no processed
\* response moves lastTimestampRef to an earlier timestamp than it held.
C15_CursorMonotone ==
  (version = "polling" /\ OneSelection /\ last.kind = "receive"
     /\ last.prevTimestamp # Null) =>
    lastTimestampRef >= last.prevTimestamp


(* ============================ the server list =========================== *)

MaxListReq == 2
MaxFetch == 3

\* the ids and load_1 values /api/servers can deliver
ListIds == {0, 1}
Loads == {1, 2}

RawServer(id, load) == [id |-> id, load_1 |-> load]

\* the lists /api/servers can deliver: up to two servers, in either order
RawLists ==
  {<<>>}
  \cup {<<RawServer(a, l)>> : a \in ListIds, l \in Loads}
  \cup {<<RawServer(p[1], l), RawServer(p[2], l)>> :
          p \in {q \in ListIds \X ListIds : q[1] # q[2]}, l \in Loads}

\* formatServerData: the displayed entry of a raw server
FormatServerData(server) == [id |-> server.id, load |-> server.load_1]

\* serversFromApi.map(formatServerData)
FormatAll(list) == [i \in 1..Len(list) |-> FormatServerData(list[i])]

\* a number used as a condition: null and 0 are falsy
Truthy(n) == n # NoId /\ n # 0

\* formattedServers.find(s => s.id === id), NoEntry for undefined
Find(formattedServers, id) ==
  IF \E i \in 1..Len(formattedServers) : formattedServers[i].id = id
  THEN formattedServers[CHOOSE i \in 1..Len(formattedServers) :
                          /\ formattedServers[i].id = id
                          /\ \A j \in 1..(i - 1) : formattedServers[j].id # id]
  ELSE NoEntry

\* mutant: the last entry of the list
InitialSelectionLast(formattedServers) ==
  IF Len(formattedServers) > 0 THEN formattedServers[Len(formattedServers)] ELSE NoEntry

\* formattedServers.length > 0 ? formattedServers[0] : null
InitialSelection(formattedServers) ==
  IF Len(formattedServers) > 0 THEN formattedServers[1] ELSE NoEntry

\* polling component: the selection after a successful /api/servers response
SelectionPolling(formattedServers) ==
  IF Truthy(selectedServerIdRef)
  THEN IF Find(formattedServers, selectedServerIdRef) # NoEntry
       THEN Find(formattedServers, selectedServerIdRef)
       ELSE InitialSelection(formattedServers)
  ELSE InitialSelection(formattedServers)

\* filter component: the selection is set only while the ref is not set
SelectionFilter(formattedServers) ==
  IF ~Truthy(selectedServerIdRef) /\ Len(formattedServers) > 0
  THEN formattedServers[1]
  ELSE selected

\* the ref after a successful response: written when it was falsy and the
\* list is not empty
RefAfter(formattedServers) ==
  IF ~Truthy(selectedServerIdRef) /\ Len(formattedServers) > 0
  THEN formattedServers[1].id
  ELSE selectedServerIdRef


\* what an earlier visit can have left in cachedNezhaServers: a list
\* /api/servers delivered then, with the loads of that time
CachedLists == {l \in RawLists : \A i \in 1..Len(l) : l[i].load_1 = 1}

InitServers ==
  /\ now = 1
  /\ store = EarlierSample
  /\ ingestCount = 0
  /\ version \in {"polling", "filter"}
  /\ selectedServer = NoServer
  /\ tcpingData = <<>>
  /\ monitorNames = <<>>
  /\ lastTimestampRef = Null
  /\ isLoadingTcping = TRUE
  /\ inflight = {}
  /\ reqCount = 0
  /\ epoch = 0
  /\ delivered = NoneDelivered
  /\ everDelivered = NeverDelivered
  /\ foreign = FALSE
  /\ reordered = FALSE
  /\ lastId = 0
  /\ last = NoLast
  /\ samples = {}
  /\ servers = <<>>
  /\ selected = NoEntry
  /\ selectedServerIdRef = NoId
  /\ cache \in {NoCache} \cup
       {[present |-> TRUE, list |-> l] : l \in IF version = "polling" THEN CachedLists ELSE {}}
  /\ listPending = 0
  /\ listReqCount = 0
  /\ mounted = FALSE
  /\ step = NoStep

\* mutant: the TCPing effect depends on the selectedServer object
TcpingDepChangedByObject(old, new) == old # new

\* the dependency [selectedServer?.id] of the TCPing effect has changed
TcpingDepChanged(old, new) == old.id # new.id

\* the effects that run after the render that follows a selection sel: the
\* TCPing effect when its dependency changed and a server is selected
ListEffects(sel) ==
  IF TcpingDepChanged(selected, sel) /\ sel # NoEntry
  THEN /\ reqCount < MaxFetch
       /\ IF version = "polling"
          THEN TcpingEffectPolling(sel.id)
          ELSE TcpingEffectFilter(sel.id, "select")
  ELSE UNCHANGED <<tcpingData, monitorNames, lastTimestampRef, isLoadingTcping,
                   inflight, reqCount, histVars>>

\* the service effect (dependency [selectedServer], polling component only)
\* runs and fetches /api/service/{id}
ServiceEffectRuns(sel, objectChanged) ==
  version = "polling" /\ objectChanged /\ sel # NoEntry

\* the last step of the server list: its kind, the list it received, the
\* selection and the TCPing effect run it started from, whether rows were
\* displayed then, and whether it fetched /api/service/{id}
StepFrom(kind, list, serviceFetched, anyOk, clicked) ==
  [kind |-> kind, list |-> list, selected |-> selected, epoch |-> epoch,
   loaded |-> tcpingData # <<>>, serviceFetched |-> serviceFetched,
   anyOk |-> anyOk, clicked |-> clicked]

\* mutant: the catch block of fetchServers clears the list and the selection
CatchFetchServersClear(st) ==
  [servers |-> <<>>, selected |-> NoEntry, ref |-> NoId, cache |-> NoCache]

\* fetchServers, catch (error): console.error and nothing else
CatchFetchServers(st) == st

\* what no step of the server list touches
ListFrame == UNCHANGED <<backendVars, version, selectedServer, samples>>

\* the component mounts: the polling component reads cachedNezhaServers and
\* shows it, selecting its first entry (selectedServerIdRef is not set); both
\* components call fetchServers and start its 5 second interval
Mount ==
  /\ ~mounted
  /\ mounted' = TRUE
  /\ LET cachedServers == FormatAll(cache.list)
         sel == IF version = "polling" /\ cache.present
                THEN InitialSelection(cachedServers) ELSE NoEntry
     IN /\ servers' = IF version = "polling" /\ cache.present THEN cachedServers ELSE <<>>
        /\ selected' = sel
        /\ ListEffects(sel)
        /\ step' = StepFrom("mount", <<>>, ServiceEffectRuns(sel, sel # selected),
                            FALSE, FALSE)
  /\ listPending' = 1
  /\ listReqCount' = 1
  /\ UNCHANGED <<selectedServerIdRef, cache>>
  /\ ListFrame

\* the 5 second timer of fetchServers fires
ListTick ==
  /\ mounted
  /\ listReqCount < MaxListReq
  /\ listPending' = listPending + 1
  /\ listReqCount' = listReqCount + 1
  /\ UNCHANGED <<servers, selected, selectedServerIdRef, cache, mounted, step>>
  /\ UNCHANGED <<clientVars, inflight, reqCount, histVars>>
  /\ UNCHANGED <<backendVars, samples>>

\* GET /api/servers answers with list: fetchServers continues after the await
FetchServersOk(list) ==
  /\ mounted
  /\ listPending > 0
  /\ listPending' = listPending - 1
  /\ LET formattedServers == FormatAll(list)
         sel == IF version = "polling" THEN SelectionPolling(formattedServers)
                ELSE SelectionFilter(formattedServers)
         objectChanged == IF version = "polling"
                          THEN ~(selected = NoEntry /\ sel = NoEntry)
                          ELSE sel # selected
     IN /\ servers' = formattedServers
        /\ cache' = IF version = "polling" THEN [present |-> TRUE, list |-> list] ELSE cache
        /\ selected' = sel
        /\ selectedServerIdRef' = RefAfter(formattedServers)
        /\ ListEffects(sel)
        /\ step' = StepFrom("ok", list, ServiceEffectRuns(sel, objectChanged),
                            TRUE, step.clicked)
  /\ UNCHANGED <<listReqCount, mounted>>
  /\ ListFrame

\* GET /api/servers fails (network error, or a body that is not JSON)
FetchServersFail ==
  /\ mounted
  /\ listPending > 0
  /\ listPending' = listPending - 1
  /\ LET st == CatchFetchServers([servers |-> servers, selected |-> selected,
                                  ref |-> selectedServerIdRef, cache |-> cache])
     IN /\ servers' = st.servers
        /\ selected' = st.selected
        /\ selectedServerIdRef' = st.ref
        /\ cache' = st.cache
        /\ ListEffects(st.selected)
        /\ step' = StepFrom("fail", <<>>, ServiceEffectRuns(st.selected, st.selected # selected),
                            step.anyOk, step.clicked)
  /\ UNCHANGED <<listReqCount, mounted>>
  /\ ListFrame

\* handleServerSelect(servers[i])
ClickServer(i) ==
  /\ mounted
  /\ i \in 1..Len(servers)
  /\ LET sel == servers[i]
     IN /\ selected' = sel
        /\ selectedServerIdRef' = sel.id
        /\ ListEffects(sel)
        /\ step' = StepFrom("click", <<>>, ServiceEffectRuns(sel, sel # selected),
                            step.anyOk, TRUE)
  /\ UNCHANGED <<servers, cache, listPending, listReqCount, mounted>>
  /\ ListFrame

\* polling component: the 2 minute timer of the service effect fires
ServiceTick ==
  /\ version = "polling"
  /\ selected # NoEntry
  /\ step' = StepFrom("serviceTick", <<>>, TRUE, step.anyOk, step.clicked)
  /\ UNCHANGED <<servers, selected, selectedServerIdRef, cache, listPending,
                 listReqCount, mounted>>
  /\ UNCHANGED <<clientVars, inflight, reqCount, histVars>>
  /\ UNCHANGED <<backendVars, samples>>

\* polling component: the 5 second timer of the TCPing effect fires
PollTickList ==
  /\ version = "polling"
  /\ selected # NoEntry
  /\ reqCount < MaxFetch
  /\ epoch' = epoch
  /\ inflight' = inflight \cup {Request(selected.id, FALSE, lastTimestampRef)}
  /\ reqCount' = reqCount + 1
  /\ UNCHANGED <<clientVars, delivered, everDelivered, foreign, reordered, lastId, last>>
  /\ UNCHANGED <<backendVars, samples, listVars>>

NextServers ==
  \/ Mount
  \/ ListTick
  \/ \E list \in RawLists : FetchServersOk(list)
  \/ FetchServersFail
  \/ \E i \in 1..2 : ClickServer(i)
  \/ ServiceTick
  \/ PollTickList
  \/ \E req \in inflight : ReceivePolling(req)
  \/ \E req \in inflight : ReceiveFilter(req)

SpecServers == InitServers /\ [][NextServers]_vars


(* ------------------- properties of the server list --------------------- *)

\* the last step of the server list was a successful /api/servers response
\* whose list contains the id that was selected when it arrived
RefreshedWithSelected ==
  /\ step.kind = "ok"
  /\ step.selected # NoEntry
  /\ Find(FormatAll(step.list), step.selected.id) # NoEntry

\* C13: in both components, after a successful /api/servers refresh whose
\* list contains the id of the selected server, selectedServer is the freshly
\* formatted entry with that id from that list, for every server id
C13_SelectionRefreshed ==
  RefreshedWithSelected => selected = Find(FormatAll(step.list), step.selected.id)


\* the last step of the server list was a successful /api/servers response
\* that kept the selected id
RefreshedSameId ==
  /\ step.kind = "ok"
  /\ step.selected # NoEntry
  /\ selected.id = step.selected.id

\* C16: polling component: while the selected server stays the same, a
\* server-list refresh that keeps the selected id triggers no fetch of
\* /api/service/{id}; fetches happen on selection and on the 2 minute timer
C16_NoServiceFetchOnRefresh ==
  (version = "polling" /\ RefreshedSameId) => ~step.serviceFetched


\* this step is a successful /api/servers response
RefreshStep == step'.kind = "ok" /\ listPending' = listPending - 1

\* C17: a server-list refresh that leaves the selected id unchanged leaves
\* tcpingData, monitorNames, lastTimestampRef and isLoadingTcping unchanged
\* and does not restart the TCPing timer (no new run of the effect, no new
\* request); in the polling component the TCPing effect runs again only
\* when the selected id changes
C17_RefreshKeepsTcping ==
  [][/\ (RefreshStep /\ selected'.id = selected.id) =>
          UNCHANGED <<tcpingData, monitorNames, lastTimestampRef, isLoadingTcping,
                      epoch, inflight, reqCount>>
     /\ (version = "polling" /\ epoch' # epoch) => selected'.id # selected.id]_vars

\* a refresh replaced the selected object by a fresh one with the same id
\* while rows were displayed, and the rows and the effect run are still there
C17_Witness ==
  /\ version = "polling"
  /\ RefreshedSameId
  /\ selected # step.selected
  /\ step.loaded
  /\ tcpingData # <<>>
  /\ epoch = step.epoch


\* this step is a failed /api/servers request
FailStep == step'.kind = "fail" /\ listPending' = listPending - 1

\* C18: when a /api/servers request fails, the servers list, selectedServer,
\* selectedServerIdRef and the localStorage cache are left as they were
C18_FailureKeepsList ==
  [][FailStep => UNCHANGED <<servers, selected, selectedServerIdRef, cache>>]_vars

\* a request failed while a list was displayed, a server selected by the
\* user and a cache written, and all of it is still there
C18_Witness ==
  /\ step.kind = "fail"
  /\ step.anyOk
  /\ step.clicked
  /\ servers # <<>>
  /\ selected # NoEntry
  /\ selected = step.selected
  /\ selectedServerIdRef = selected.id
  /\ cache.present


\* C19: polling component, mounted with a cachedNezhaServers entry: as long
\* as no /api/servers request has succeeded, the displayed servers are the
\* formatted cached list and (unless the user selected another one) its
\* first server is selected; after a successful response the cache holds the
\* raw list of that response
C19_CacheFallback ==
  (version = "polling" /\ mounted) =>
    /\ (cache.present /\ ~step.anyOk) =>
         /\ Len(servers) = Len(cache.list)
         /\ \A i \in 1..Len(servers) : servers[i] = FormatServerData(cache.list[i])
         /\ ~step.clicked =>
              selected = IF Len(cache.list) > 0 THEN FormatServerData(cache.list[1])
                         ELSE NoEntry
    /\ step.kind = "ok" => cache = [present |-> TRUE, list |-> step.list]

\* every /api/servers request of the run has failed and the two cached
\* servers are displayed, the first one selected
C19_Witness ==
  /\ version = "polling"
  /\ cache.present
  /\ ~step.anyOk
  /\ ~step.clicked
  /\ step.kind = "fail"
  /\ listPending = 0
  /\ listReqCount = MaxListReq
  /\ Len(servers) = 2
  /\ selected = servers[1]

====
